---- MODULE Spec2Model ----
(***************************************************************************)
(* Model of capra-singleplanner (src/main.rs): one run of main reads a     *)
(* JSONDive request, builds the deco gases and bottom segments, plans the  *)
(* dive and prints the plan table and the gas table.                       *)
(*                                                                         *)
(* main.rs is modelled statement by statement.  The capra library it calls *)
(* (Gas, DiveSegment, ZHL16, OpenCircuit) is not part of the sources; it   *)
(* is modelled from the specification (sections 4.1 - 4.5).  The tissue    *)
(* model is floating point: its ceiling is modelled as an arbitrary value  *)
(* that is a fixed function of the request (the k-th query of a run on the *)
(* same request always answers the same).                                  *)
(*                                                                         *)
(* Units: depth in metres, time in seconds, gas volume in 1/1200 litre     *)
(* (so that the mean pressure of a transit and seconds stay integral).     *)
(* usize values are represented by their residue in (-2^63, 2^63): a       *)
(* negative number x stands for the machine value 2^64 + x.                *)
(***************************************************************************)
EXTENDS Integers, Sequences, FiniteSets

\* ------------------------------------------------------------- bounds
MaxSegments == 2
MaxDecoGases == 1
MaxCeiling == 4

\* ------------------------------------------------------------- constants
DEFAULT_GFL == 100
DEFAULT_GFH == 100
DEFAULT_ASCENT_RATE == 0 - 18
DEFAULT_DESCENT_RATE == 30
SAC_BOTTOM == 20
SAC_DECO == 15
StopInterval == 3
StopIncrement == 60
MaxIterations == 4
MaxPPO2 == 160
MetresPerBar == 10

\* Option<T>: None is the empty tuple, Some(t) the one-element tuple.
None == <<>>
Some(t) == <<t>>
IsSome(o) == Len(o) = 1
UnwrapOr(o, d) == IF Len(o) = 1 THEN o[1] ELSE d

Abs(x) == IF x < 0 THEN 0 - x ELSE x

VARIABLES
    js,               \* the decoded JSONDive request
    build,            \* the build's overflow-checks setting: "checked", "unchecked", or
                      \* "any" while no overflow has shown which
    pc,               \* position of main
    error,            \* "none" or the failure that ended the run
    ascent_rate, descent_rate, gfl, gfh,
    deco_mixes,       \* Vec<(Gas, Option<usize>)>
    bottom_segments,  \* Vec<(DiveSegment, Gas)>
    dive,             \* the OpenCircuit planner's configuration, None before it is built
    total_segs,       \* the planner's segment list while execute_dive runs
    depth,            \* the planner's current depth
    cur_gas,          \* the gas in force in the planner
    bidx,             \* how many bottom segments the planner has consumed
    stop_time,        \* the length of the stop being built
    iterations,       \* the ascent loop's iteration count
    exposed,          \* how many segments the tissue model was exposed to
    queries,          \* how many ceiling queries this run made
    ceilings,         \* the ceiling's answers in the order of the queries (fixed per request)
    pstate,           \* the planner's state (4.4)
    plan,             \* main's plan
    gas_plan,         \* main's gas_plan
    output,           \* what main printed
    run,              \* 1 for the first run on the request, 2 for the second
    prev_output       \* what the first run printed

vars == <<js, build, pc, error, ascent_rate, descent_rate, gfl, gfh, deco_mixes,
          bottom_segments, dive, total_segs, depth, cur_gas, bidx, stop_time,
          iterations, exposed, queries, ceilings, pstate, plan, gas_plan, output, run, prev_output>>

\* ------------------------------------------------------------- values (capra)
\* usize subtraction a - b for b >= 0: it overflows when the machine value of a is
\* smaller than b; the wrapped result is the residue a - b.
UsizeSubOverflows(a, b) == a >= 0 /\ a < b
UsizeSubWrapped(a, b) == a - b

\* The nitrogen argument of main's calls of Gas::new: 100 - he - o2 in usize.
\* A build with overflow checks panics, one without wraps.
NitrogenOverflows(o2, he) ==
    UsizeSubOverflows(100, he) \/ UsizeSubOverflows(UsizeSubWrapped(100, he), o2)
NitrogenWrapped(o2, he) == UsizeSubWrapped(UsizeSubWrapped(100, he), o2)

\* Gas::new: fails with InvalidComposition when o2 + he > 100.
Gas_new(o2, he, n2) ==
    IF o2 + he > 100
    THEN [ok |-> FALSE, err |-> "InvalidComposition", gas |-> None]
    ELSE [ok |-> TRUE, err |-> "none", gas |-> Some([o2 |-> o2, he |-> he, n2 |-> n2])]

\* DiveSegment::new: fails with InvalidSegment on a non-positive depth or time.
DiveSegment_new(segment_type, start_depth, end_depth, time, asc, desc) ==
    IF start_depth <= 0 \/ end_depth <= 0 \/ time <= 0
    THEN [ok |-> FALSE, err |-> "InvalidSegment", seg |-> None]
    ELSE [ok |-> TRUE, err |-> "none",
          seg |-> Some([segment_type |-> segment_type, start_depth |-> start_depth,
                        end_depth |-> end_depth, time |-> time,
                        ascent_rate |-> asc, descent_rate |-> desc])]

\* Duration::minutes(t), in seconds.
Duration_minutes(t) == t * 60

\* ------------------------------------------------------------- main, lines 64-117
NoOutput == [header |-> <<>>, plan_rows |-> <<>>, gas_rows |-> <<>>, total_row |-> <<>>]

\* A panic (a failed expect, or an arithmetic overflow): the run ends, nothing is printed.
Panic(e) ==
    /\ pc' = "failed"
    /\ error' = e

\* serde_json::from_str, then the four defaults.
Decode ==
    /\ pc = "decode"
    /\ ascent_rate' = UnwrapOr(js.asc, DEFAULT_ASCENT_RATE)
    /\ descent_rate' = UnwrapOr(js.desc, DEFAULT_DESCENT_RATE)
    /\ gfl' = UnwrapOr(js.gfl, DEFAULT_GFL)
    /\ gfh' = UnwrapOr(js.gfh, DEFAULT_GFH)
    /\ pc' = "deco_gases"
    /\ UNCHANGED <<js, build, error, deco_mixes, bottom_segments, dive, total_segs, depth,
                   cur_gas, bidx, stop_time, iterations, exposed, queries, ceilings, pstate,
                   plan, gas_plan, output, run, prev_output>>

\* The overflow-checks settings the build may have when the nitrogen argument of a gas
\* overflows: either, until the run has shown which one it is.
Builds(o2, he) ==
    IF NitrogenOverflows(o2, he) /\ build = "any" THEN {"checked", "unchecked"} ELSE {build}

\* MainDecoMix with the request's override left out.
MainDecoMixNoOverride(gas, json) == <<gas, None>>

\* The entry main pushes for a deco gas: the gas and the request's depth override.
MainDecoMix(gas, json) == <<gas, json.modepth>>

\* One turn of `for gas in js.deco_gases`, or the loop's end.
PushDecoGas ==
    /\ pc = "deco_gases"
    /\ IF Len(deco_mixes) = Len(js.deco_gases)
       THEN /\ pc' = "segments"
            /\ UNCHANGED <<build, error, deco_mixes>>
       ELSE LET gas == js.deco_gases[Len(deco_mixes) + 1]
                r == Gas_new(gas.o2, gas.he, NitrogenWrapped(gas.o2, gas.he))
            IN  \E b \in Builds(gas.o2, gas.he) :
                  /\ build' = b
                  /\ IF b = "checked" /\ NitrogenOverflows(gas.o2, gas.he)
                     THEN Panic("ArithmeticOverflow") /\ UNCHANGED deco_mixes
                     ELSE IF ~r.ok
                     THEN Panic(r.err) /\ UNCHANGED deco_mixes
                     ELSE /\ deco_mixes' = Append(deco_mixes, MainDecoMix(r.gas[1], gas))
                          /\ UNCHANGED <<pc, error>>
    /\ UNCHANGED <<js, ascent_rate, descent_rate, gfl, gfh, bottom_segments, dive,
                   total_segs, depth, cur_gas, bidx, stop_time, iterations, exposed, queries,
                   ceilings, pstate, plan, gas_plan, output, run, prev_output>>

\* MainSegment with the requested time in the place of the end depth.
MainSegmentTimeAsDepth(seg) ==
    DiveSegment_new("DiveSegment", seg.depth, seg.time, Duration_minutes(seg.time),
                    ascent_rate, descent_rate)

\* MainSegment with a default of one minute in the place of a time of 0.
MainSegmentDefaulted(seg) ==
    DiveSegment_new("DiveSegment", seg.depth, seg.depth,
                    Duration_minutes(IF seg.time = 0 THEN 1 ELSE seg.time),
                    ascent_rate, descent_rate)

\* The segment main builds for a requested one: at the requested depth from start to
\* end, for the requested minutes.
MainSegment(seg) ==
    DiveSegment_new("DiveSegment", seg.depth, seg.depth, Duration_minutes(seg.time),
                    ascent_rate, descent_rate)

\* One turn of `for seg in js.segments`, or the loop's end.  The tuple's fields are
\* evaluated in order: the segment first, then the gas and its nitrogen argument.
PushSegment ==
    /\ pc = "segments"
    /\ IF Len(bottom_segments) = Len(js.segments)
       THEN /\ pc' = "new_planner"
            /\ UNCHANGED <<build, error, bottom_segments>>
       ELSE LET seg == js.segments[Len(bottom_segments) + 1]
                s == MainSegment(seg)
                r == Gas_new(seg.o2, seg.he, NitrogenWrapped(seg.o2, seg.he))
            IN  IF ~s.ok
                THEN Panic(s.err) /\ UNCHANGED <<build, bottom_segments>>
                ELSE \E b \in Builds(seg.o2, seg.he) :
                       /\ build' = b
                       /\ IF b = "checked" /\ NitrogenOverflows(seg.o2, seg.he)
                          THEN Panic("ArithmeticOverflow") /\ UNCHANGED bottom_segments
                          ELSE IF ~r.ok
                          THEN Panic(r.err) /\ UNCHANGED bottom_segments
                          ELSE /\ bottom_segments' = Append(bottom_segments, <<s.seg[1], r.gas[1]>>)
                               /\ UNCHANGED <<pc, error>>
    /\ UNCHANGED <<js, ascent_rate, descent_rate, gfl, gfh, deco_mixes, dive,
                   total_segs, depth, cur_gas, bidx, stop_time, iterations, exposed, queries,
                   ceilings, pstate, plan, gas_plan, output, run, prev_output>>

\* ZHL16::new with the request's gradient factors, then OpenCircuit::new with the
\* rates, the salt water density and the two surface-air-consumption rates.
OpenCircuit_new(gf_low, gf_high, mixes, segments, asc, desc, metres_per_bar, sac_bottom, sac_deco) ==
    [gfl |-> gf_low, gfh |-> gf_high, deco_gases |-> mixes, bottom_segments |-> segments,
     ascent_rate |-> asc, descent_rate |-> desc, metres_per_bar |-> metres_per_bar,
     sac_bottom |-> sac_bottom, sac_deco |-> sac_deco]

\* MainPlanner with the bottom rate given for the deco rate too.
MainPlannerOneSac ==
    OpenCircuit_new(gfl, gfh, deco_mixes, bottom_segments, ascent_rate, descent_rate,
                    MetresPerBar, SAC_BOTTOM, SAC_BOTTOM)

MainPlanner ==
    OpenCircuit_new(gfl, gfh, deco_mixes, bottom_segments, ascent_rate, descent_rate,
                    MetresPerBar, SAC_BOTTOM, SAC_DECO)

NewPlanner ==
    /\ pc = "new_planner"
    /\ dive' = Some(MainPlanner)
    /\ pc' = "execute_dive"
    /\ UNCHANGED <<js, build, error, ascent_rate, descent_rate, gfl, gfh, deco_mixes,
                   bottom_segments, total_segs, depth, cur_gas, bidx, stop_time, iterations,
                   exposed, queries, ceilings, pstate, plan, gas_plan, output, run,
                   prev_output>>

\* ------------------------------------------------------------- the planner (capra)
\* time_taken: the seconds a transit between two depths takes at a rate.
time_taken(rate, d1, d2) == (Abs(d2 - d1) * 60) \div Abs(rate)

\* The gas in force: the gas, the deco mix it is (its index in deco_gases, 0 for a
\* bottom gas) and the depth at which the planner switched to it.
InForce(gas, mix, at) == [gas |-> gas, mix |-> mix, at |-> at]

\* A generated segment and the gas it ran on; phase tells the accountant which
\* surface-air-consumption rate applies.
PlanEntry(segment_type, start_depth, end_depth, time, sel, phase) ==
    [segment_type |-> segment_type, start_depth |-> start_depth, end_depth |-> end_depth,
     time |-> time, gas |-> sel.gas, mix |-> sel.mix, at |-> sel.at, phase |-> phase]

\* The ceiling, rounded to the next (deeper) stop depth.
RoundToStop(c) == ((c + StopInterval - 1) \div StopInterval) * StopInterval

\* Gas::maximum_operating_depth at MaxPPO2 (o2 > 0), and the depth limit of a deco mix:
\* the request's override when present, the computed one otherwise.
maximum_operating_depth(gas) == (MaxPPO2 * MetresPerBar) \div gas.o2 - MetresPerBar
ModOf(mix) == IF IsSome(mix[2]) THEN mix[2][1] ELSE maximum_operating_depth(mix[1])

\* A deco mix whose depth limit cannot be computed.
IsDegenerate(mix) == ~IsSome(mix[2]) /\ mix[1].o2 = 0

\* The indices of the deco mixes usable at depth d, and the gas for an ascent leg from d:
\* the richest usable deco mix (the first of equally rich ones), else the bottom gas.
Qualifies(mix, d) == ModOf(mix) >= d
Usable(mixes, d) == {i \in 1..Len(mixes) : Qualifies(mixes[i], d)}
Richest(mixes, idx) ==
    CHOOSE i \in idx : \A j \in idx : mixes[j][1].o2 < mixes[i][1].o2
                                      \/ (mixes[j][1].o2 = mixes[i][1].o2 /\ i <= j)
SelectGas(mixes, d) == IF Usable(mixes, d) = {} THEN 0 ELSE Richest(mixes, Usable(mixes, d))

BottomGas == dive[1].bottom_segments[Len(dive[1].bottom_segments)][2]
GasOf(mixes, i) == IF i = 0 THEN BottomGas ELSE mixes[i][1]

\* The ceiling calculator's answer to this run's next query: any depth in the first
\* run, the same answer again in a second run on the same request.
CeilingAnswers == IF run = 1 THEN 0..MaxCeiling ELSE {ceilings[queries + 1]}
Asked(c) ==
    /\ queries' = queries + 1
    /\ ceilings' = IF run = 1 THEN Append(ceilings, c) ELSE ceilings

\* IterationsExceeded, one iteration late.
IterationsExceededLate(n) == n > MaxIterations + 1

\* The iteration guard of the ascent loop.
IterationsExceeded(n) == n > MaxIterations

\* ExecuteDive without the validation of its input.
ExecuteDiveUnchecked ==
    /\ pc = "execute_dive"
    /\ pc' = "bottom"
    /\ pstate' = "Descending"
    /\ UNCHANGED <<js, build, error, ascent_rate, descent_rate, gfl, gfh, deco_mixes,
                   bottom_segments, dive, total_segs, depth, cur_gas, bidx, stop_time,
                   iterations, exposed, queries, ceilings, plan, gas_plan, output, run,
                   prev_output>>

\* execute_dive's entry, the validation of its input: no bottom segment, no plan; and
\* every deco mix needs a depth limit.
ExecuteDive ==
    /\ pc = "execute_dive"
    /\ IF Len(dive[1].bottom_segments) = 0
       THEN Panic("NoBottomSegments") /\ UNCHANGED pstate
       ELSE IF \E i \in 1..Len(dive[1].deco_gases) : IsDegenerate(dive[1].deco_gases[i])
       THEN Panic("DegenerateGas") /\ UNCHANGED pstate
       ELSE /\ pc' = "bottom"
            /\ pstate' = "Descending"
            /\ UNCHANGED error
    /\ UNCHANGED <<js, build, ascent_rate, descent_rate, gfl, gfh, deco_mixes,
                   bottom_segments, dive, total_segs, depth, cur_gas, bidx, stop_time,
                   iterations, exposed, queries, ceilings, plan, gas_plan, output, run,
                   prev_output>>

\* 4.4 step 1: the transit to the next bottom segment's depth, then the segment itself.
TransitTo(seg, sel) ==
    PlanEntry("AscDesc", depth, seg.start_depth,
              time_taken(dive[1].descent_rate, depth, seg.start_depth), sel, "bottom")
BottomEntry(seg, sel) ==
    PlanEntry(seg.segment_type, seg.start_depth, seg.end_depth, seg.time, sel, "bottom")

BottomSegment ==
    /\ pc = "bottom"
    /\ IF bidx = Len(dive[1].bottom_segments)
       THEN /\ pc' = "ascent"
            /\ pstate' = "Ascending"
            /\ UNCHANGED <<total_segs, depth, cur_gas, bidx, exposed>>
       ELSE LET seg == dive[1].bottom_segments[bidx + 1][1]
                sel == InForce(dive[1].bottom_segments[bidx + 1][2], 0, seg.start_depth)
            IN  /\ total_segs' = total_segs \o <<TransitTo(seg, sel), BottomEntry(seg, sel)>>
                /\ exposed' = exposed + 2
                /\ depth' = seg.end_depth
                /\ cur_gas' = Some(sel)
                /\ bidx' = bidx + 1
                /\ pstate' = "AtBottom"
                /\ UNCHANGED pc
    /\ UNCHANGED <<js, build, error, ascent_rate, descent_rate, gfl, gfh, deco_mixes,
                   bottom_segments, dive, stop_time, iterations, queries, ceilings, plan,
                   gas_plan, output, run, prev_output>>

\* 4.4 step 2 a-d: query the ceiling; at the surface, the final ascent; otherwise the
\* gas for the leg and the transit to the stop.
FinalAscent ==
    PlanEntry("AscDesc", depth, 0, time_taken(dive[1].ascent_rate, depth, 0), cur_gas[1], "deco")
AscentLeg(stop, sel) ==
    PlanEntry("AscDesc", depth, stop, time_taken(dive[1].ascent_rate, depth, stop), sel, "deco")

\* The gas for a leg from depth d: the gas in force stays when the selection names it.
Switch(mixes, d) ==
    LET i == SelectGas(mixes, d)
    IN  IF i = cur_gas[1].mix /\ GasOf(mixes, i) = cur_gas[1].gas
        THEN cur_gas[1] ELSE InForce(GasOf(mixes, i), i, d)

AscentStep ==
    /\ pc = "ascent"
    /\ \E c \in CeilingAnswers :
         /\ Asked(c)
         /\ iterations' = iterations + 1
         /\ IF IterationsExceeded(iterations + 1)
            THEN /\ Panic("UnreachableCeiling")
                 /\ UNCHANGED <<total_segs, depth, cur_gas, stop_time, exposed, pstate, plan>>
            ELSE IF RoundToStop(c) <= 0
            THEN /\ total_segs' = Append(total_segs, FinalAscent)
                 /\ exposed' = exposed + 1
                 /\ depth' = 0
                 /\ pstate' = "Surfaced"
                 /\ plan' = Append(total_segs, FinalAscent)
                 /\ pc' = "plan_forwards"
                 /\ UNCHANGED <<error, cur_gas, stop_time>>
            ELSE LET sel == Switch(dive[1].deco_gases, depth)
                 IN  /\ total_segs' = Append(total_segs, AscentLeg(RoundToStop(c), sel))
                     /\ exposed' = exposed + 1
                     /\ depth' = RoundToStop(c)
                     /\ cur_gas' = Some(sel)
                     /\ stop_time' = 0
                     /\ pstate' = "AtStop"
                     /\ pc' = "stop"
                     /\ UNCHANGED <<error, plan>>
    /\ UNCHANGED <<js, build, ascent_rate, descent_rate, gfl, gfh, deco_mixes,
                   bottom_segments, dive, bidx, gas_plan, output, run, prev_output>>

\* 4.4 step 2 e: lengthen the stop by one increment until the ceiling is no deeper than
\* the stop; a stop of no duration is omitted.
StopEntry == PlanEntry("DecoStop", depth, depth, stop_time, cur_gas[1], "deco")

StopStep ==
    /\ pc = "stop"
    /\ \E c \in CeilingAnswers :
         /\ Asked(c)
         /\ iterations' = iterations + 1
         /\ IF IterationsExceeded(iterations + 1)
            THEN /\ Panic("UnreachableCeiling")
                 /\ UNCHANGED <<total_segs, stop_time, exposed, pstate>>
            ELSE IF c <= depth
            THEN /\ total_segs' = IF stop_time > 0 THEN Append(total_segs, StopEntry)
                                  ELSE total_segs
                 /\ pstate' = "Ascending"
                 /\ pc' = "ascent"
                 /\ UNCHANGED <<error, stop_time, exposed>>
            ELSE /\ stop_time' = stop_time + StopIncrement
                 /\ exposed' = exposed + 1
                 /\ UNCHANGED <<pc, error, total_segs, pstate>>
    /\ UNCHANGED <<js, build, ascent_rate, descent_rate, gfl, gfh, deco_mixes,
                   bottom_segments, dive, depth, cur_gas, bidx, plan, gas_plan, output,
                   run, prev_output>>

\* ------------------------------------------------------------- gas accounting (capra)
\* Ambient pressure at a depth, in 1/metres_per_bar bar.
AmbientPressure(d, metres_per_bar) == metres_per_bar + d

\* 4.5: pressure x duration x rate for a constant depth, the mean pressure of the two
\* ends for a transit; the rate is the one of the segment's phase.  In 1/1200 litre.
Consumption(e, cfg) ==
    LET sac == IF e.phase = "bottom" THEN cfg.sac_bottom ELSE cfg.sac_deco
    IN  IF e.start_depth = e.end_depth
        THEN 2 * AmbientPressure(e.end_depth, cfg.metres_per_bar) * e.time * sac
        ELSE (AmbientPressure(e.start_depth, cfg.metres_per_bar)
              + AmbientPressure(e.end_depth, cfg.metres_per_bar)) * e.time * sac

RECURSIVE GasTotal(_, _, _)
GasTotal(segs, gas, cfg) ==
    IF segs = <<>> THEN 0
    ELSE (IF segs[1].gas = gas THEN Consumption(segs[1], cfg) ELSE 0)
         + GasTotal(Tail(segs), gas, cfg)

\* plan_forwards: the mapping from each gas of the plan to its total volume.
GasesOf(segs) == {segs[i].gas : i \in 1..Len(segs)}
plan_forwards(segs, cfg) == [g \in GasesOf(segs) |-> GasTotal(segs, g, cfg)]

\* ------------------------------------------------------------- main, lines 126-182
\* The orders in which a mapping's entries can be iterated.
Orders(S) == {o \in [1..Cardinality(S) -> S] : \A i, j \in DOMAIN o : o[i] = o[j] => i = j}

\* Vec::from_iter(dive.plan_forwards()): the entries in the mapping's iteration order.
PlanForwards ==
    /\ pc = "plan_forwards"
    /\ LET m == plan_forwards(plan, dive[1])
       IN  \E o \in Orders(DOMAIN m) :
             gas_plan' = [i \in DOMAIN o |-> <<o[i], m[o[i]]>>]
    /\ pc' = "sort"
    /\ UNCHANGED <<js, build, error, ascent_rate, descent_rate, gfl, gfh, deco_mixes,
                   bottom_segments, dive, total_segs, depth, cur_gas, bidx, stop_time,
                   iterations, exposed, queries, ceilings, pstate, plan, output, run,
                   prev_output>>

\* sort_by(|&(_, a), &(_, b)| b.cmp(&a)): a stable sort, largest quantity first.
RECURSIVE InsertDesc(_, _)
InsertDesc(sorted, x) ==
    IF sorted = <<>> THEN <<x>>
    ELSE IF sorted[1][2] >= x[2] THEN <<sorted[1]>> \o InsertDesc(Tail(sorted), x)
    ELSE <<x>> \o sorted

RECURSIVE sort_by(_)
sort_by(v) ==
    IF v = <<>> THEN <<>>
    ELSE InsertDesc(sort_by(SubSeq(v, 1, Len(v) - 1)), v[Len(v)])

SortGasPlan ==
    /\ pc = "sort"
    /\ gas_plan' = sort_by(gas_plan)
    /\ pc' = "print_plan"
    /\ UNCHANGED <<js, build, error, ascent_rate, descent_rate, gfl, gfh, deco_mixes,
                   bottom_segments, dive, total_segs, depth, cur_gas, bidx, stop_time,
                   iterations, exposed, queries, ceilings, pstate, plan, output, run,
                   prev_output>>

\* pretty_time: whole minutes, and the seconds left over.
pretty_time(duration) ==
    LET m == duration \div 60
        sec == duration - m * 60
    IN  <<m, sec>>

\* The rows of the dive plan table, runtime being the time of all rows so far.
RECURSIVE PlanRows(_, _)
PlanRows(segs, runtime) ==
    IF segs = <<>> THEN <<>>
    ELSE LET x == segs[1]
             rt == runtime + x.time
         IN  <<[segment_type |-> x.segment_type,
                arrow |-> (x.segment_type = "AscDesc"),
                depth |-> x.end_depth,
                time |-> pretty_time(x.time),
                runtime |-> pretty_time(rt),
                gas |-> <<x.gas.o2, x.gas.he>>]>> \o PlanRows(Tail(segs), rt)

PrintPlan ==
    /\ pc = "print_plan"
    /\ output' = [output EXCEPT !.header = <<ascent_rate, descent_rate, gfl, gfh>>,
                                !.plan_rows = PlanRows(plan, 0)]
    /\ pc' = "print_gas"
    /\ UNCHANGED <<js, build, error, ascent_rate, descent_rate, gfl, gfh, deco_mixes,
                   bottom_segments, dive, total_segs, depth, cur_gas, bidx, stop_time,
                   iterations, exposed, queries, ceilings, pstate, plan, gas_plan, run,
                   prev_output>>

\* The rows of the gas table, and total_gas after the loop.
GasRows(v) == [i \in DOMAIN v |-> [gas |-> <<v[i][1].o2, v[i][1].he>>, qty |-> v[i][2]]]

\* total_gas without the last row.
RECURSIVE total_gas_short(_)
total_gas_short(v) == IF Len(v) <= 1 THEN 0 ELSE v[1][2] + total_gas_short(Tail(v))

RECURSIVE total_gas(_)
total_gas(v) == IF v = <<>> THEN 0 ELSE v[1][2] + total_gas(Tail(v))

PrintGasPlan ==
    /\ pc = "print_gas"
    /\ output' = [output EXCEPT !.gas_rows = GasRows(gas_plan),
                                !.total_row = <<total_gas(gas_plan)>>]
    /\ pc' = "done"
    /\ UNCHANGED <<js, build, error, ascent_rate, descent_rate, gfl, gfh, deco_mixes,
                   bottom_segments, dive, total_segs, depth, cur_gas, bidx, stop_time,
                   iterations, exposed, queries, ceilings, pstate, plan, gas_plan, run,
                   prev_output>>

\* The same request is given to a second run of the program.
Rerun ==
    /\ pc \in {"done", "failed"}
    /\ run = 1
    /\ run' = 2
    /\ prev_output' = output
    /\ pc' = "decode"
    /\ error' = "none"
    /\ ascent_rate' = 0 /\ descent_rate' = 0 /\ gfl' = 0 /\ gfh' = 0
    /\ deco_mixes' = <<>> /\ bottom_segments' = <<>> /\ dive' = None
    /\ total_segs' = <<>> /\ depth' = 0 /\ cur_gas' = None /\ bidx' = 0
    /\ stop_time' = 0 /\ iterations' = 0 /\ exposed' = 0 /\ queries' = 0
    /\ pstate' = "Idle" /\ plan' = <<>> /\ gas_plan' = <<>> /\ output' = NoOutput
    /\ UNCHANGED <<js, build, ceilings>>

\* ------------------------------------------------------------- requests
SeqsUpTo(S, n) == UNION {[1..k -> S] : k \in 0..n}

JSONDiveSegment(d, t, o2, he) == [depth |-> d, time |-> t, o2 |-> o2, he |-> he]
JSONDecoGas(o2, he, m) == [o2 |-> o2, he |-> he, modepth |-> m]
JSONDive(l, h, a, d, segs, gases) ==
    [gfl |-> l, gfh |-> h, asc |-> a, desc |-> d, segments |-> segs, deco_gases |-> gases]

\* Bottom segments: two valid ones, and one each with no depth, no time and a bad gas.
SegChoices ==
    {JSONDiveSegment(9, 1, 21, 0), JSONDiveSegment(3, 2, 32, 0), JSONDiveSegment(0, 1, 21, 0),
     JSONDiveSegment(9, 0, 21, 0), JSONDiveSegment(9, 1, 60, 60)}

\* Deco gases: oxygen (computed limit 6 m), 50% limited to 3 m by the request, a bad
\* gas, and one with no oxygen.
DecoChoices ==
    {JSONDecoGas(100, 0, None), JSONDecoGas(50, 0, Some(3)), JSONDecoGas(60, 60, None),
     JSONDecoGas(0, 0, None)}

PlanRequests ==
    {JSONDive(o[1], o[2], o[3], o[4], segs, gases) :
        o \in {<<None, None, None, None>>, <<Some(30), Some(85), Some(0 - 9), Some(15)>>},
        segs \in SeqsUpTo(SegChoices, MaxSegments),
        gases \in SeqsUpTo(DecoChoices, MaxDecoGases)}

\* Requests that reach the ascent: the defaults, valid segments and a valid deco gas.
AscentRequests ==
    {JSONDive(None, None, None, None, segs, gases) :
        segs \in SeqsUpTo({JSONDiveSegment(9, 1, 21, 0), JSONDiveSegment(3, 2, 32, 0)},
                          MaxSegments),
        gases \in SeqsUpTo({JSONDecoGas(100, 0, None)}, MaxDecoGases)}

ConfigRequests ==
    {JSONDive(l, h, a, d, <<JSONDiveSegment(3, 1, 21, 0)>>, <<>>) :
        l \in {None, Some(30)}, h \in {None, Some(85)},
        a \in {None, Some(0 - 9)}, d \in {None, Some(15)}}

InitWith(requests) ==
    /\ js \in requests
    /\ build = "any"
    /\ pc = "decode"
    /\ error = "none"
    /\ ascent_rate = 0 /\ descent_rate = 0 /\ gfl = 0 /\ gfh = 0
    /\ deco_mixes = <<>> /\ bottom_segments = <<>> /\ dive = None
    /\ total_segs = <<>> /\ depth = 0 /\ cur_gas = None /\ bidx = 0
    /\ stop_time = 0 /\ iterations = 0 /\ exposed = 0 /\ queries = 0
    /\ ceilings = <<>>
    /\ pstate = "Idle" /\ plan = <<>> /\ gas_plan = <<>> /\ output = NoOutput
    /\ run = 1 /\ prev_output = NoOutput

\* Two levels at one depth for the same time on two gases, with rates that make the
\* descent cost what the ascent costs.
TwiceRequests ==
    {JSONDive(l, None, Some(0 - 15), Some(20),
              <<JSONDiveSegment(3, 1, 21, 0), JSONDiveSegment(3, 1, 32, 0)>>, <<>>) :
        l \in {None, Some(30)}}

Init == InitWith(PlanRequests)
InitConfig == InitWith(ConfigRequests)
InitTwice == InitWith(TwiceRequests)
InitAscent == InitWith(AscentRequests)

Next ==
    \/ Decode
    \/ PushDecoGas
    \/ PushSegment
    \/ NewPlanner
    \/ ExecuteDive
    \/ BottomSegment
    \/ AscentStep
    \/ StopStep
    \/ PlanForwards
    \/ SortGasPlan
    \/ PrintPlan
    \/ PrintGasPlan

NextTwice == Next \/ Rerun

Spec == Init /\ [][Next]_vars
SpecConfig == InitConfig /\ [][Next]_vars
SpecTwice == InitTwice /\ [][NextTwice]_vars

\* main is one sequential thread: while a statement is left to run, it runs.
FairSpec == InitAscent /\ [][Next]_vars /\ WF_vars(Next)

\* ------------------------------------------------------------- properties
SegmentInvalid(seg) == seg.depth <= 0 \/ seg.time <= 0
GasInvalid(g) == g.o2 + g.he > 100

\* C1: a plan that is returned starts at depth 0, ends at depth 0 and each segment
\* starts at the depth the one before it ended at, and so do the printed rows end at
\* depth 0; the bottom segments main hands over are of one depth, the requested one,
\* and none is a transit.
C1_PlanContinuous ==
    /\ \A i \in 1..Len(bottom_segments) :
          /\ bottom_segments[i][1].segment_type = "DiveSegment"
          /\ bottom_segments[i][1].start_depth = js.segments[i].depth
          /\ bottom_segments[i][1].end_depth = js.segments[i].depth
    /\ plan # <<>> =>
          /\ plan[1].start_depth = 0
          /\ plan[Len(plan)].end_depth = 0
          /\ \A i \in 2..Len(plan) : plan[i].start_depth = plan[i - 1].end_depth
    /\ output.plan_rows # <<>> =>
          /\ Len(output.plan_rows) = Len(plan)
          /\ \A i \in 1..Len(plan) : output.plan_rows[i].depth = plan[i].end_depth
          /\ output.plan_rows[Len(plan)].depth = 0

C1_Witness ==
    /\ pc = "done"
    /\ Len(js.segments) = 2
    /\ \E i \in 1..Len(plan) : plan[i].segment_type = "DecoStop"

\* C2: a generated segment runs on a deco gas of the request only if the depth at which
\* the planner switched to it is no deeper than that gas's limit (the request's modepth
\* when given, the computed maximum operating depth otherwise); every other segment of
\* the ascent runs on the last bottom gas.
RequestMod(g) ==
    IF g.modepth # None THEN g.modepth[1] ELSE (160 * 10) \div g.o2 - 10

C2_Segments(segs) ==
    \A i \in 1..Len(segs) :
        LET e == segs[i]
        IN  /\ e.mix # 0 =>
                  /\ e.mix \in 1..Len(js.deco_gases)
                  /\ e.gas.o2 = js.deco_gases[e.mix].o2
                  /\ e.gas.he = js.deco_gases[e.mix].he
                  /\ e.phase = "deco"
                  /\ e.at <= RequestMod(js.deco_gases[e.mix])
            /\ (e.mix = 0 /\ e.phase = "deco") =>
                  /\ e.gas.o2 = js.segments[Len(js.segments)].o2
                  /\ e.gas.he = js.segments[Len(js.segments)].he

C2_SwitchWithinMod == C2_Segments(total_segs) /\ C2_Segments(plan)

C2_Witness ==
    /\ pc = "done"
    /\ \E i \in 1..Len(plan) :
          /\ plan[i].mix # 0
          /\ js.deco_gases[plan[i].mix].modepth # None
          /\ js.segments[1].depth > js.deco_gases[plan[i].mix].modepth[1]


\* C5: with no bottom segment in the request, planning fails with NoBottomSegments:
\* the planner generates no segment, exposes the tissue model to nothing, and the run
\* produces no plan and no gas table.
C5_NoBottomSegments ==
    Len(js.segments) = 0 =>
        /\ total_segs = <<>> /\ exposed = 0 /\ queries = 0
        /\ plan = <<>> /\ gas_plan = <<>> /\ output = NoOutput
        /\ pc \in {"decode", "deco_gases", "segments", "new_planner", "execute_dive", "failed"}
        /\ (pc = "failed" /\ dive # None) => error = "NoBottomSegments"

C5_Witness == Len(js.segments) = 0 /\ pc = "failed" /\ error = "NoBottomSegments"

\* C6: a requested segment of depth 0 or time 0 is never accepted, corrected or skipped:
\* its construction fails with InvalidSegment, and a request that holds one never
\* reaches the planner (no exposure, no plan, nothing printed).
C6_InvalidSegment ==
    /\ \A i \in 1..Len(bottom_segments) :
          /\ ~SegmentInvalid(js.segments[i])
          /\ bottom_segments[i][1].start_depth = js.segments[i].depth
          /\ bottom_segments[i][1].time = 60 * js.segments[i].time
    /\ (\E i \in 1..Len(js.segments) : SegmentInvalid(js.segments[i])) =>
          /\ dive = None /\ exposed = 0 /\ total_segs = <<>>
          /\ plan = <<>> /\ gas_plan = <<>> /\ output = NoOutput
          /\ pc \in {"decode", "deco_gases", "segments", "failed"}
    /\ ( /\ pc = "failed"
         /\ Len(deco_mixes) = Len(js.deco_gases)
         /\ Len(bottom_segments) < Len(js.segments)
         /\ SegmentInvalid(js.segments[Len(bottom_segments) + 1]) ) =>
          error = "InvalidSegment"

C6_Witness ==
    /\ pc = "failed" /\ error = "InvalidSegment"
    /\ Len(bottom_segments) = 1
    /\ js.segments[2].time = 0

\* C9: the printed grand total is the sum of the printed per-gas totals; each per-gas
\* total is the sum of the consumption of exactly the plan's segments on that gas; so
\* the grand total is the sum of the consumption of all segments, a segment of no
\* duration adding nothing.
RECURSIVE SumOver(_, _, _)
SumOver(segs, n, idx) ==
    IF n = 0 THEN 0
    ELSE SumOver(segs, n - 1, idx)
         + (IF n \in idx THEN Consumption(segs[n], dive[1]) ELSE 0)

RECURSIVE SumQty(_, _)
SumQty(rows, n) == IF n = 0 THEN 0 ELSE SumQty(rows, n - 1) + rows[n].qty

C9_Additive ==
    pc = "done" =>
        LET OnGas(r) == {k \in 1..Len(plan) : <<plan[k].gas.o2, plan[k].gas.he>> = r.gas}
            Timed == {k \in 1..Len(plan) : plan[k].time > 0}
        IN  /\ output.total_row[1] = SumQty(output.gas_rows, Len(output.gas_rows))
            /\ \A i \in 1..Len(output.gas_rows) :
                  output.gas_rows[i].qty = SumOver(plan, Len(plan), OnGas(output.gas_rows[i]))
            /\ \A i, j \in 1..Len(output.gas_rows) :
                  output.gas_rows[i].gas = output.gas_rows[j].gas => i = j
            /\ \A k \in 1..Len(plan) :
                  \E i \in 1..Len(output.gas_rows) :
                      output.gas_rows[i].gas = <<plan[k].gas.o2, plan[k].gas.he>>
            /\ output.total_row[1] = SumOver(plan, Len(plan), 1..Len(plan))
            /\ output.total_row[1] = SumOver(plan, Len(plan), Timed)

C9_Witness ==
    /\ pc = "done"
    /\ Len(output.gas_rows) >= 2
    /\ \E k \in 1..Len(plan) : plan[k].time = 0
    /\ \E k \in 1..Len(plan) : plan[k].segment_type = "DecoStop"

\* C3: the ascent loop ends.  The iteration count never passes the bound by more than
\* the one query that trips it; a surfaced plan ends with an ascent to depth 0, is the
\* plan returned, and grows no more; UnreachableCeiling comes only past the bound and
\* leaves no plan, no gas table and no output; and from the start of the ascent one of
\* the two is reached.
C3_State ==
    /\ iterations <= MaxIterations + 1
    /\ pc \in {"ascent", "stop"} => iterations <= MaxIterations
    /\ pstate = "Surfaced" =>
          /\ total_segs # <<>>
          /\ total_segs[Len(total_segs)].segment_type = "AscDesc"
          /\ total_segs[Len(total_segs)].end_depth = 0
          /\ plan = total_segs
          /\ error = "none"
    /\ error = "UnreachableCeiling" =>
          /\ iterations > MaxIterations
          /\ pc = "failed"
          /\ plan = <<>> /\ gas_plan = <<>> /\ output = NoOutput

C3_Step == pstate = "Surfaced" => (pstate' = "Surfaced" /\ total_segs' = total_segs)

C3_Termination ==
    /\ []C3_State
    /\ [][C3_Step]_vars
    /\ (pc = "ascent") ~> (pstate = "Surfaced" \/ error = "UnreachableCeiling")

C3_Witness ==
    /\ error = "UnreachableCeiling"
    /\ \E i \in 1..Len(total_segs) : total_segs[i].phase = "deco"

\* C4: the construction of a gas with o2 + he > 100 fails with InvalidComposition; no
\* gas with a fraction outside 0..100 or fractions not summing to 100 is handed to the
\* planner; a request with such a gas gives no plan and no output.
GasWellFormed(g) ==
    /\ g.o2 \in 0..100 /\ g.he \in 0..100 /\ g.n2 \in 0..100
    /\ g.o2 + g.he + g.n2 = 100

C4_InvalidComposition ==
    /\ \A i \in 1..Len(deco_mixes) : GasWellFormed(deco_mixes[i][1])
    /\ \A i \in 1..Len(bottom_segments) : GasWellFormed(bottom_segments[i][2])
    /\ ( \/ \E i \in 1..Len(js.deco_gases) : GasInvalid(js.deco_gases[i])
         \/ \E i \in 1..Len(js.segments) : GasInvalid(js.segments[i]) ) =>
          /\ dive = None /\ plan = <<>> /\ output = NoOutput
    /\ ( /\ pc = "failed"
         /\ Len(deco_mixes) < Len(js.deco_gases)
         /\ GasInvalid(js.deco_gases[Len(deco_mixes) + 1]) ) =>
          error = "InvalidComposition"
    /\ ( /\ pc = "failed"
         /\ Len(deco_mixes) = Len(js.deco_gases)
         /\ Len(bottom_segments) < Len(js.segments)
         /\ ~SegmentInvalid(js.segments[Len(bottom_segments) + 1])
         /\ GasInvalid(js.segments[Len(bottom_segments) + 1]) ) =>
          error = "InvalidComposition"

\* C7 as stated: the planner gets a bottom and a deco surface-air-consumption rate of
\* 20 each, and gfl/gfh are the request's, 100 when left out.
C7_GradientFactors ==
    /\ dive[1].gfl = (IF js.gfl = None THEN 100 ELSE js.gfl[1])
    /\ dive[1].gfh = (IF js.gfh = None THEN 100 ELSE js.gfh[1])

C7_SacTwentyEach ==
    dive # None => (dive[1].sac_bottom = 20 /\ dive[1].sac_deco = 20 /\ C7_GradientFactors)

\* C7 as amended: the bottom rate is 20 and the deco rate 15 for every request, and
\* gfl/gfh are the request's, 100 when left out.
C7_SacTwentyFifteen ==
    dive # None => (dive[1].sac_bottom = 20 /\ dive[1].sac_deco = 15 /\ C7_GradientFactors)

C7_Witness ==
    /\ pc = "done"
    /\ js.gfl = None /\ js.gfh # None
    /\ \E i \in 1..Len(plan) : plan[i].segment_type = "DecoStop"

\* C8: the second run on a request prints what the first run printed.
C8_Deterministic == (run = 2 /\ pc = "done") => output = prev_output

====
